---- MODULE Spec2Model ----
(***************************************************************************)
(* Model of src/app.py, the "Business Decision Intelligence Simulator".    *)
(*                                                                         *)
(* The script is one straight-line computation that the UI framework runs  *)
(* from the top whenever a sidebar widget changes.  The state is the set   *)
(* of script variables (widget values, the units list, the data frame's    *)
(* columns, the derived statistics and what the tiles and banners show);   *)
(* pc is the script section that runs next.                                *)
(*                                                                         *)
(* Numbers.  The script computes in IEEE 754 binary64 with rounding to     *)
(* nearest, ties to even, and so does the model.  A number is a record     *)
(*     [k |-> "fin", s |-> sign, m |-> significand, e |-> exponent]        *)
(* of value s * m * 2^e, where s is -1, 0 or 1 and, unless the number is   *)
(* zero, 2^52 <= m < 2^53.  The significand is a natural number written    *)
(* as its sequence of base-2^15 digits, least significant first (<<>> is   *)
(* 0).  k is "inf" (with s = 1 or -1) or "nan" for the non-finite results  *)
(* of an element-wise division by zero.  An int of the script is the       *)
(* number of the same value.  Exponent overflow, subnormal numbers and the *)
(* sign of zero are left out: no value the script computes from the        *)
(* sidebar's ranges leaves the normal range or is a negative zero.         *)
(***************************************************************************)
EXTENDS Integers, Sequences, FiniteSets

(***************************************************************************)
(* Natural numbers of any size, as base-2^15 digit sequences.              *)
(***************************************************************************)
LimbBits == 15

Base == 2 ^ LimbBits

RECURSIVE NNorm(_)
NNorm(a) ==
    IF a = <<>> THEN a
    ELSE IF a[Len(a)] = 0 THEN NNorm(SubSeq(a, 1, Len(a) - 1))
    ELSE a

RECURSIVE NFromInt(_)
NFromInt(n) == IF n = 0 THEN <<>> ELSE <<n % Base>> \o NFromInt(n \div Base)

RECURSIVE NCmpAt(_, _, _)
NCmpAt(a, b, i) ==
    IF i = 0 THEN 0
    ELSE IF a[i] # b[i] THEN (IF a[i] < b[i] THEN -1 ELSE 1)
    ELSE NCmpAt(a, b, i - 1)

\* -1, 0 or 1 as a < b, a = b, a > b.
NCmp(a, b) ==
    IF Len(a) # Len(b) THEN (IF Len(a) < Len(b) THEN -1 ELSE 1)
    ELSE NCmpAt(a, b, Len(a))

RECURSIVE NAddAt(_, _, _, _)
NAddAt(a, b, i, c) ==
    IF i > Len(a) /\ i > Len(b) THEN (IF c = 0 THEN <<>> ELSE <<c>>)
    ELSE LET s == (IF i <= Len(a) THEN a[i] ELSE 0)
                  + (IF i <= Len(b) THEN b[i] ELSE 0) + c
         IN  <<s % Base>> \o NAddAt(a, b, i + 1, s \div Base)

NAdd(a, b) == NAddAt(a, b, 1, 0)

RECURSIVE NSubAt(_, _, _, _)
NSubAt(a, b, i, br) ==
    IF i > Len(a) THEN <<>>
    ELSE LET d == a[i] - (IF i <= Len(b) THEN b[i] ELSE 0) - br
         IN  <<d % Base>> \o NSubAt(a, b, i + 1, IF d < 0 THEN 1 ELSE 0)

\* a - b for a >= b.
NSub(a, b) == NNorm(NSubAt(a, b, 1, 0))

RECURSIVE NMulSmallAt(_, _, _, _)
NMulSmallAt(a, k, i, c) ==
    IF i > Len(a) THEN (IF c = 0 THEN <<>> ELSE <<c>>)
    ELSE LET p == a[i] * k + c
         IN  <<p % Base>> \o NMulSmallAt(a, k, i + 1, p \div Base)

\* a * k for 0 <= k <= Base.
NMulSmall(a, k) == IF k = 0 THEN <<>> ELSE NMulSmallAt(a, k, 1, 0)

NShlLimbs(a, q) == IF a = <<>> THEN a ELSE [i \in 1..q |-> 0] \o a

\* a * 2^n.
NShl(a, n) == NShlLimbs(NMulSmall(a, 2 ^ (n % LimbBits)), n \div LimbBits)

\* a \div 2^n.
NShr(a, n) ==
    LET q == n \div LimbBits
        r == n % LimbBits
        t == IF q >= Len(a) THEN <<>> ELSE SubSeq(a, q + 1, Len(a))
    IN  IF r = 0 THEN t
        ELSE NNorm([i \in 1..Len(t) |->
                      (t[i] \div 2 ^ r)
                      + (IF i < Len(t) THEN (t[i + 1] % 2 ^ r) * 2 ^ (LimbBits - r)
                         ELSE 0)])

\* Bit i of a, bit 0 the lowest.
NBit(a, i) ==
    LET j == i \div LimbBits + 1
    IN  IF j > Len(a) THEN 0 ELSE (a[j] \div 2 ^ (i % LimbBits)) % 2

\* The n lowest bits of a are all 0.
NLowZero(a, n) ==
    LET q == n \div LimbBits
        r == n % LimbBits
    IN  /\ \A j \in 1..q : j <= Len(a) => a[j] = 0
        /\ (r > 0 /\ q + 1 <= Len(a)) => a[q + 1] % 2 ^ r = 0

RECURSIVE SmallBitLen(_)
SmallBitLen(x) == IF x = 0 THEN 0 ELSE 1 + SmallBitLen(x \div 2)

NBitLen(a) ==
    IF a = <<>> THEN 0 ELSE LimbBits * (Len(a) - 1) + SmallBitLen(a[Len(a)])

NIsOdd(a) == a # <<>> /\ a[1] % 2 = 1

RECURSIVE NMulAt(_, _, _)
NMulAt(a, b, j) ==
    IF j > Len(b) THEN <<>>
    ELSE NAdd(NShlLimbs(NMulSmall(a, b[j]), j - 1), NMulAt(a, b, j + 1))

NMul(a, b) == NMulAt(a, b, 1)

\* <<a \div k, a % k>> for 0 < k <= Base, from the top digit down.
RECURSIVE NDivSmallAt(_, _, _, _, _)
NDivSmallAt(a, k, i, r, q) ==
    IF i = 0 THEN <<NNorm(q), r>>
    ELSE LET t == r * Base + a[i]
         IN  NDivSmallAt(a, k, i - 1, t % k, <<t \div k>> \o q)

NDivSmall(a, k) == NDivSmallAt(a, k, Len(a), 0, <<>>)

\* n steps of binary long division: <<quotient bits as a number, remainder>>.
RECURSIVE DivSteps(_, _, _, _)
DivSteps(r, d, n, q) ==
    IF n = 0 THEN <<q, r>>
    ELSE LET r2 == NMulSmall(r, 2)
         IN  IF NCmp(r2, d) >= 0
             THEN DivSteps(NSub(r2, d), d, n - 1, 2 * q + 1)
             ELSE DivSteps(r2, d, n - 1, 2 * q)

(***************************************************************************)
(* binary64 arithmetic.                                                    *)
(***************************************************************************)
Precision == 53

Zero == [k |-> "fin", s |-> 0, m |-> <<>>, e |-> 0]

Inf(sg) == [k |-> "inf", s |-> sg, m |-> <<>>, e |-> 0]

NaN == [k |-> "nan", s |-> 0, m |-> <<>>, e |-> 0]

IsFinite(a) == a.k = "fin"

IsNaN(a) == a.k = "nan"

Abs(x) == IF x < 0 THEN -x ELSE x

Sign(x) == IF x < 0 THEN -1 ELSE IF x > 0 THEN 1 ELSE 0

\* The double nearest to sg * (mm + f) * 2^ee, ties to even, where f is 0
\* or, when sticky, some fraction strictly between 0 and 1.  With sticky,
\* mm has more than Precision + 1 bits.
RoundNearest(sg, mm, ee, sticky) ==
    LET len == NBitLen(mm)
    IN  IF mm = <<>> \/ sg = 0 THEN Zero
        ELSE IF len <= Precision
        THEN [k |-> "fin", s |-> sg, m |-> NShl(mm, Precision - len),
              e |-> ee - (Precision - len)]
        ELSE LET sh   == len - Precision
                 q    == NShr(mm, sh)
                 half == NBit(mm, sh - 1) = 1
                 rest == sticky \/ ~NLowZero(mm, sh - 1)
                 up   == half /\ (rest \/ NIsOdd(q))
                 q2   == IF up THEN NAdd(q, <<1>>) ELSE q
             IN  IF NBitLen(q2) > Precision
                 THEN [k |-> "fin", s |-> sg, m |-> NShr(q2, 1), e |-> ee + sh + 1]
                 ELSE [k |-> "fin", s |-> sg, m |-> q2, e |-> ee + sh]

\* The int n as a number (exact below 2^53).
FromInt(n) == RoundNearest(Sign(n), NFromInt(Abs(n)), 0, FALSE)

FNeg(a) == [a EXCEPT !.s = -a.s]

\* |a| against |b| for finite a, b: -1, 0 or 1.
MagCmp(a, b) ==
    IF a.s = 0 THEN (IF b.s = 0 THEN 0 ELSE -1)
    ELSE IF b.s = 0 THEN 1
    ELSE IF a.e # b.e THEN (IF a.e < b.e THEN -1 ELSE 1)
    ELSE NCmp(a.m, b.m)

\* a + b for finite non-zero a, b with a.e >= b.e.  An addend more than 60
\* binary places below the other cannot change the rounded sum.
AddAligned(a, b) ==
    IF a.e - b.e > 60 THEN a
    ELSE LET am == NShl(a.m, a.e - b.e)
         IN  IF a.s = b.s
             THEN RoundNearest(a.s, NAdd(am, b.m), b.e, FALSE)
             ELSE LET c == NCmp(am, b.m)
                  IN  IF c = 0 THEN Zero
                      ELSE IF c > 0 THEN RoundNearest(a.s, NSub(am, b.m), b.e, FALSE)
                      ELSE RoundNearest(b.s, NSub(b.m, am), b.e, FALSE)

\* a + b.  inf + (-inf) and anything + NaN are NaN.
FAdd(a, b) ==
    IF IsFinite(a) /\ IsFinite(b)
    THEN IF a.s = 0 THEN b
         ELSE IF b.s = 0 THEN a
         ELSE IF a.e >= b.e THEN AddAligned(a, b) ELSE AddAligned(b, a)
    ELSE IF IsNaN(a) \/ IsNaN(b) THEN NaN
    ELSE IF ~IsFinite(a) /\ ~IsFinite(b) THEN (IF a.s = b.s THEN a ELSE NaN)
    ELSE IF IsFinite(a) THEN b ELSE a

FSub(a, b) == FAdd(a, FNeg(b))

\* a * b.  0 * inf is NaN.
FMul(a, b) ==
    IF IsFinite(a) /\ IsFinite(b)
    THEN IF a.s = 0 \/ b.s = 0 THEN Zero
         ELSE RoundNearest(a.s * b.s, NMul(a.m, b.m), a.e + b.e, FALSE)
    ELSE IF IsNaN(a) \/ IsNaN(b) \/ a.s = 0 \/ b.s = 0 THEN NaN
    ELSE Inf(a.s * b.s)

\* a / b for finite non-zero a, b: 56 quotient bits of a.m / b.m and whether
\* a remainder is left.
DivFinite(a, b) ==
    LET d  == NMulSmall(b.m, 2)
        c1 == DivSteps(a.m, d, 14, 0)
        c2 == DivSteps(c1[2], d, 14, 0)
        c3 == DivSteps(c2[2], d, 14, 0)
        c4 == DivSteps(c3[2], d, 14, 0)
        q  == NAdd(NShl(NFromInt(c1[1]), 42),
                   NAdd(NShl(NFromInt(c2[1]), 28),
                        NAdd(NShl(NFromInt(c3[1]), 14), NFromInt(c4[1]))))
    IN  RoundNearest(a.s * b.s, q, a.e - b.e - 55, c4[2] # <<>>)

\* Element-wise division as the data frame does it: x/0 is +inf or -inf,
\* 0/0 is NaN, and no exception is raised.
FDiv(a, b) ==
    IF IsFinite(a) /\ IsFinite(b)
    THEN IF b.s = 0 THEN (IF a.s = 0 THEN NaN ELSE Inf(a.s))
         ELSE IF a.s = 0 THEN Zero
         ELSE DivFinite(a, b)
    ELSE IF IsNaN(a) \/ IsNaN(b) THEN NaN
    ELSE IF IsFinite(b) THEN Inf(IF b.s < 0 THEN -a.s ELSE a.s)
    ELSE IF IsFinite(a) THEN Zero
    ELSE NaN

\* a < b; every comparison with NaN is false.
FLT(a, b) ==
    IF IsNaN(a) \/ IsNaN(b) THEN FALSE
    ELSE IF ~IsFinite(a) THEN a.s < 0 /\ b # a
    ELSE IF ~IsFinite(b) THEN b.s > 0
    ELSE IF a.s # b.s THEN a.s < b.s
    ELSE IF a.s = 0 THEN FALSE
    ELSE IF a.s > 0 THEN MagCmp(a, b) < 0
    ELSE MagCmp(a, b) > 0

FGT(a, b) == FLT(b, a)

FLE(a, b) == ~IsNaN(a) /\ ~IsNaN(b) /\ ~FLT(b, a)

FGE(a, b) == FLE(b, a)

\* max(0, x) of the built-in max: x when x > 0, else the first argument 0.
Max0(x) == IF FGT(x, Zero) THEN x ELSE Zero

\* acc + s[lo] + s[lo + step] + ... up to index hi, added left to right.
RECURSIVE SumFrom(_, _, _, _, _)
SumFrom(s, lo, hi, step, acc) ==
    IF lo > hi THEN acc ELSE SumFrom(s, lo + step, hi, step, FAdd(acc, s[lo]))

\* The sum of a float64 column as the array library adds it: left to right
\* below 8 elements; from 8 to 128 elements, eight running sums over the
\* full blocks of 8, combined pairwise, then the remaining elements.
NpSum(s) ==
    LET n    == Len(s)
        full == 8 * (n \div 8)
        r(j) == SumFrom(s, j + 8, full, 8, s[j])
    IN  IF n < 8 THEN SumFrom(s, 1, n, 1, Zero)
        ELSE SumFrom(s, full + 1, n, 1,
                     FAdd(FAdd(FAdd(r(1), r(2)), FAdd(r(3), r(4))),
                          FAdd(FAdd(r(5), r(6)), FAdd(r(7), r(8)))))

\* Series.mean(): the sum of the column over its length.
Mean(s) == FDiv(NpSum(s), FromInt(Len(s)))

(***************************************************************************)
(* Formatting.                                                             *)
(***************************************************************************)
Digit == <<"0", "1", "2", "3", "4", "5", "6", "7", "8", "9">>

\* The decimal digits of the natural number a, most significant first.
RECURSIVE NDigits(_)
NDigits(a) ==
    IF a = <<>> THEN <<>>
    ELSE LET qr == NDivSmall(a, 10) IN Append(NDigits(qr[1]), qr[2])

RECURSIVE Join(_)
Join(ds) == IF ds = <<>> THEN "" ELSE Digit[Head(ds) + 1] \o Join(Tail(ds))

\* str(n) of an int n >= 0.
ToStr(n) == IF n = 0 THEN "0" ELSE Join(NDigits(NFromInt(n)))

\* The integer nearest to |x| * 10^k for finite x, ties to the even one.
ScaledRound(x, k) ==
    LET num == NMulSmall(x.m, 10 ^ k)
    IN  IF x.e >= 0 THEN NShl(num, x.e)
        ELSE LET sh   == -x.e
                 q    == NShr(num, sh)
                 half == NBit(num, sh - 1) = 1
                 rest == ~NLowZero(num, sh - 1)
             IN  IF half /\ (rest \/ NIsOdd(q)) THEN NAdd(q, <<1>>) ELSE q

\* format(x, ".kf") for k in 0..2: the exact value of x rounded to k
\* decimals, ties to even, at least one digit before the point, and the
\* minus sign of a negative x kept even when every digit printed is 0.
FormatFixed(x, k) ==
    IF IsNaN(x) THEN "nan"
    ELSE IF ~IsFinite(x) THEN (IF x.s < 0 THEN "-inf" ELSE "inf")
    ELSE LET ds  == NDigits(ScaledRound(x, k))
             pad == [i \in 1..(k + 1 - Len(ds)) |-> 0] \o ds
             n   == Len(pad)
             int == Join(SubSeq(pad, 1, n - k))
             dec == Join(SubSeq(pad, n - k + 1, n))
         IN  (IF x.s < 0 THEN "-" ELSE "")
             \o int \o (IF k > 0 THEN "." \o dec ELSE "")

(***************************************************************************)
(* Inputs.  The sidebar admits price in 1..100000, cost in 0..100000,      *)
(* fixed_cost in 0..1000000, months in 3..24, start_units in 0..100000,    *)
(* growth in -30..100, price_change in -30..30 and target_net_margin in    *)
(* 0..50.  The values explored are a grid inside these ranges, chosen to   *)
(* hit the boundary cases (zero units, adjusted price below, at and above  *)
(* cost, net profit below, at and above zero), together with four named    *)
(* parameter sets inside the same ranges.                                  *)
(***************************************************************************)
MinMonths == 3

MaxMonths == 4

MinGrowth == -30

MaxGrowth == 100

MinPriceChange == -30

MaxPriceChange == 30

MaxTargetNetMargin == 50

PriceValues == {10}

CostValues == {0, 7, 11, 12}

FixedCostValues == {0, 30, 300}

MonthsValues == MinMonths..MaxMonths

StartUnitsValues == {0, 10}

GrowthValues == {MinGrowth, 0, 10, MaxGrowth}

PriceChangeValues == {MinPriceChange, 0, 10}

TargetNetMarginValues == {20}

Fields == {"price", "cost", "fixed_cost", "months", "start_units", "growth",
           "price_change", "target_net_margin"}

WidgetValues ==
    [price |-> PriceValues, cost |-> CostValues, fixed_cost |-> FixedCostValues,
     months |-> MonthsValues, start_units |-> StartUnitsValues,
     growth |-> GrowthValues, price_change |-> PriceChangeValues,
     target_net_margin |-> TargetNetMarginValues]

Grid ==
    [price : PriceValues, cost : CostValues, fixed_cost : FixedCostValues,
     months : MonthsValues, start_units : StartUnitsValues,
     growth : GrowthValues, price_change : PriceChangeValues,
     target_net_margin : TargetNetMarginValues]

\* price=50, cost=20, fixed_cost=20000, months=6, start_units=70, growth=0,
\* price_change=0 (the target slider left at its default).
Scenario ==
    [price |-> 50, cost |-> 20, fixed_cost |-> 20000, months |-> 6,
     start_units |-> 70, growth |-> 0, price_change |-> 0,
     target_net_margin |-> 20]

\* 25 raised by 12 % is 28, the unit cost.
TieScenario ==
    [price |-> 25, cost |-> 28, fixed_cost |-> 30, months |-> 3,
     start_units |-> 10, growth |-> 0, price_change |-> 12,
     target_net_margin |-> 20]

\* 39 raised by 4 % is 40.56: 11.56 a unit over the cost, 289 for 25 units.
BreakEvenScenario ==
    [price |-> 39, cost |-> 29, fixed_cost |-> 289, months |-> 3,
     start_units |-> 25, growth |-> 0, price_change |-> 4,
     target_net_margin |-> 20]

\* 16 lowered by 18 % is 13.12; 32, 24, 18 and 13.5 units at that price
\* bring in 1148, four times the fixed cost.
MeanScenario ==
    [price |-> 16, cost |-> 0, fixed_cost |-> 287, months |-> 4,
     start_units |-> 32, growth |-> -25, price_change |-> -18,
     target_net_margin |-> 20]

Scenarios == {Scenario, TieScenario, BreakEvenScenario, MeanScenario}

\* What the sidebar sliders and number inputs let through.
Admissible(r) ==
    /\ r.price \in 1..100000
    /\ r.cost \in 0..100000
    /\ r.fixed_cost \in 0..1000000
    /\ r.months \in MinMonths..24
    /\ r.start_units \in 0..100000
    /\ r.growth \in MinGrowth..MaxGrowth
    /\ r.price_change \in MinPriceChange..MaxPriceChange
    /\ r.target_net_margin \in 0..MaxTargetNetMargin

(***************************************************************************)
(* State.                                                                  *)
(***************************************************************************)
VARIABLES
    price, cost, fixed_cost, months, start_units, growth, price_change,
    target_net_margin,      \* sidebar widgets
    adj_price,              \* price after the price-change scenario
    units, current,         \* the projection loop
    df,                     \* the data frame, one sequence per column
    avg_net_profit, contribution_per_unit, health_score, banner,
    break_even, unit_status,
    actual_avg_revenue, actual_net_margin, net_margin_tile,
    recommendation,
    summary,                \* the executive-summary frame
    pc                      \* the script section that runs next

inputs == <<price, cost, fixed_cost, months, start_units, growth, price_change,
            target_net_margin>>

derived == <<adj_price, units, current, df, avg_net_profit, contribution_per_unit,
             health_score, banner, break_even, unit_status, actual_avg_revenue,
             actual_net_margin, net_margin_tile, recommendation, summary>>

vars == <<inputs, derived, pc>>

\* A script variable that has not been assigned in this run.
None == [k |-> "none", s |-> 0, m |-> <<>>, e |-> 0]

NoTile == [kind |-> "none", value |-> None, text |-> ""]

NoFrame ==
    [Month |-> <<>>, Units_Sold |-> <<>>, Revenue |-> <<>>, COGS |-> <<>>,
     Contribution |-> <<>>, Net_Profit |-> <<>>, Gross_Margin |-> <<>>,
     Net_Margin |-> <<>>]

Params ==
    [price |-> price, cost |-> cost, fixed_cost |-> fixed_cost, months |-> months,
     start_units |-> start_units, growth |-> growth, price_change |-> price_change,
     target_net_margin |-> target_net_margin]

\* The script starts from the top with the widget values r.
Start(r) ==
    /\ price = r.price
    /\ cost = r.cost
    /\ fixed_cost = r.fixed_cost
    /\ months = r.months
    /\ start_units = r.start_units
    /\ growth = r.growth
    /\ price_change = r.price_change
    /\ target_net_margin = r.target_net_margin
    /\ adj_price = None
    /\ units = <<>>
    /\ current = None
    /\ df = NoFrame
    /\ avg_net_profit = None
    /\ contribution_per_unit = None
    /\ health_score = 0
    /\ banner = <<>>
    /\ break_even = NoTile
    /\ unit_status = ""
    /\ actual_avg_revenue = None
    /\ actual_net_margin = None
    /\ net_margin_tile = ""
    /\ recommendation = <<>>
    /\ summary = <<>>
    /\ pc = "sidebar"

Init == \E r \in Grid \cup Scenarios : Start(r)

(***************************************************************************)
(* Sidebar and projection loop.                                            *)
(***************************************************************************)
\* adj_price = price * (1 + price_change / 100)
AdjPrice(p, c) ==
    FMul(FromInt(p), FAdd(FromInt(1), FDiv(FromInt(c), FromInt(100))))

\* current *= (1 + growth / 100)
Grow(cur, g) ==
    FMul(cur, FAdd(FromInt(1), FDiv(FromInt(g), FromInt(100))))

\* Variant: the label printed from the 0-based index itself.
MonthLabelZeroBased(i) == "Month " \o ToStr(i)

\* f"Month {i+1}" for the 0-based index i.
MonthLabel(i) == "Month " \o ToStr(i + 1)

\* The widgets are read, adj_price is computed, the loop variables are set.
Sidebar ==
    /\ pc = "sidebar"
    /\ adj_price' = AdjPrice(price, price_change)
    /\ units' = <<>>
    /\ current' = FromInt(start_units)
    /\ pc' = "loop"
    /\ UNCHANGED <<inputs, df, avg_net_profit, contribution_per_unit, health_score,
                   banner, break_even, unit_status, actual_avg_revenue,
                   actual_net_margin, net_margin_tile, recommendation, summary>>

\* One iteration of "for _ in range(months)".
LoopStep ==
    /\ pc = "loop"
    /\ Len(units) < months
    /\ units' = Append(units, Max0(current))
    /\ current' = Grow(current, growth)
    /\ pc' = IF Len(units) + 1 < months THEN "loop" ELSE "frame"
    /\ UNCHANGED <<inputs, adj_price, df, avg_net_profit, contribution_per_unit,
                   health_score, banner, break_even, unit_status, actual_avg_revenue,
                   actual_net_margin, net_margin_tile, recommendation, summary>>

(***************************************************************************)
(* The data frame.                                                         *)
(***************************************************************************)
\* df["Revenue"] = df["Units Sold"] * adj_price
Revenue(u, p) == FMul(u, p)

\* df["COGS"] = df["Units Sold"] * cost
Cogs(u, c) == FMul(u, FromInt(c))

\* df["Contribution"] = df["Revenue"] - df["COGS"]
Contribution(rev, cogs) == FSub(rev, cogs)

\* Variant: the fixed cost added instead of subtracted.
NetProfitAdded(contrib, f) == FAdd(contrib, FromInt(f))

\* df["Net Profit"] = df["Contribution"] - fixed_cost
NetProfit(contrib, f) == FSub(contrib, FromInt(f))

\* np.where(c, x, y), one element: both x and y have been computed.
Where(c, x, y) == IF c THEN x ELSE y

\* Variant: the margin without the zero-revenue guard.
MarginPctUnguarded(num, rev) == FMul(FDiv(num, rev), FromInt(100))

\* np.where(df["Revenue"] > 0, (numerator / df["Revenue"]) * 100, 0)
MarginPct(num, rev) ==
    Where(FGT(rev, Zero), FMul(FDiv(num, rev), FromInt(100)), Zero)

BuildFrame ==
    /\ pc = "frame"
    /\ LET n   == Len(units)
           rev == [i \in 1..n |-> Revenue(units[i], adj_price)]
           cgs == [i \in 1..n |-> Cogs(units[i], cost)]
           con == [i \in 1..n |-> Contribution(rev[i], cgs[i])]
           net == [i \in 1..n |-> NetProfit(con[i], fixed_cost)]
       IN  df' = [Month        |-> [i \in 1..months |-> MonthLabel(i - 1)],
                  Units_Sold   |-> units,
                  Revenue      |-> rev,
                  COGS         |-> cgs,
                  Contribution |-> con,
                  Net_Profit   |-> net,
                  Gross_Margin |-> [i \in 1..n |-> MarginPct(con[i], rev[i])],
                  Net_Margin   |-> [i \in 1..n |-> MarginPct(net[i], rev[i])]]
    /\ pc' = "health"
    /\ UNCHANGED <<inputs, adj_price, units, current, avg_net_profit,
                   contribution_per_unit, health_score, banner, break_even,
                   unit_status, actual_avg_revenue, actual_net_margin,
                   net_margin_tile, recommendation, summary>>

(***************************************************************************)
(* 1. Business health overview.                                            *)
(***************************************************************************)
\* contribution_per_unit = adj_price - cost
ContributionPerUnit(p, c) == FSub(p, FromInt(c))

\* Variant: zero growth earns the growth bonus.
HealthScoreGrowthGE(cpu, anp, g, f, meanRev) ==
    (IF FGT(cpu, Zero) THEN 30 ELSE 0) + (IF FGT(anp, Zero) THEN 30 ELSE 0)
    + (IF g >= 0 THEN 20 ELSE 0) + (IF FLT(FromInt(f), meanRev) THEN 20 ELSE 0)

\* health_score = 0, then the four "+=" lines.
HealthScore(cpu, anp, g, f, meanRev) ==
    LET h0 == 0
        h1 == h0 + (IF FGT(cpu, Zero) THEN 30 ELSE 0)
        h2 == h1 + (IF FGT(anp, Zero) THEN 30 ELSE 0)
        h3 == h2 + (IF g > 0 THEN 20 ELSE 0)
        h4 == h3 + (IF FLT(FromInt(f), meanRev) THEN 20 ELSE 0)
    IN  h4

\* Variant: the "strong" banner from 70 points on.
Banner70(h) ==
    IF h >= 70 THEN <<"success", "Business fundamentals are strong.">>
    ELSE IF h >= 50 THEN <<"warning", "Business is survivable but needs optimization.">>
    ELSE <<"error", "Core business model is at risk.">>

Banner(h) ==
    IF h >= 80 THEN <<"success", "Business fundamentals are strong.">>
    ELSE IF h >= 50 THEN <<"warning", "Business is survivable but needs optimization.">>
    ELSE <<"error", "Core business model is at risk.">>

HealthOverview ==
    /\ pc = "health"
    /\ avg_net_profit' = Mean(df.Net_Profit)
    /\ contribution_per_unit' = ContributionPerUnit(adj_price, cost)
    /\ health_score' = HealthScore(contribution_per_unit', avg_net_profit', growth,
                                   fixed_cost, Mean(df.Revenue))
    /\ banner' = Banner(health_score')
    /\ pc' = "unit"
    /\ UNCHANGED <<inputs, adj_price, units, current, df, break_even, unit_status,
                   actual_avg_revenue, actual_net_margin, net_margin_tile,
                   recommendation, summary>>

(***************************************************************************)
(* 2. Unit economics.                                                      *)
(***************************************************************************)
\* Stands for the cross mark (U+274C) the tiles show.
Cross == "x"

\* a / b on two scalars: a zero divisor raises ZeroDivisionError.
Raised == [k |-> "ZeroDivisionError", s |-> 0, m |-> <<>>, e |-> 0]

ScalarDiv(a, b) == IF IsFinite(b) /\ b.s = 0 THEN Raised ELSE FDiv(a, b)

\* f"{fixed_cost / contribution_per_unit:.0f}" if contribution_per_unit > 0
\* else the cross.  value is the quotient handed to the formatter, text what
\* the tile prints.
BreakEvenTile(f, cpu) ==
    IF FGT(cpu, Zero)
    THEN LET q == ScalarDiv(FromInt(f), cpu)
         IN  IF q = Raised
             THEN [kind |-> "ZeroDivisionError", value |-> None, text |-> ""]
             ELSE [kind |-> "number", value |-> q, text |-> FormatFixed(q, 0)]
    ELSE [kind |-> "sentinel", value |-> None, text |-> Cross]

\* "Healthy" or "Broken", each followed by its mark on the tile.
UnitStatus(cpu) == IF FGT(cpu, Zero) THEN "Healthy" ELSE "Broken"

UnitEconomics ==
    /\ pc = "unit"
    /\ break_even' = BreakEvenTile(fixed_cost, contribution_per_unit)
    /\ unit_status' = UnitStatus(contribution_per_unit)
    /\ pc' = "target"
    /\ UNCHANGED <<inputs, adj_price, units, current, df, avg_net_profit,
                   contribution_per_unit, health_score, banner, actual_avg_revenue,
                   actual_net_margin, net_margin_tile, recommendation, summary>>

(***************************************************************************)
(* 3. Target vs actual.                                                    *)
(***************************************************************************)
\* Variant: the margin recomputed from the totals.
ActualNetMarginOfTotals(d) ==
    Where(FGT(NpSum(d.Revenue), Zero),
          FMul(FDiv(NpSum(d.Net_Profit), NpSum(d.Revenue)), FromInt(100)), Zero)

\* actual_net_margin = df["Net Margin %"].mean()
ActualNetMargin(d) == Mean(d.Net_Margin)

\* f"{actual_net_margin:.1f}%"
NetMarginTile(anm) == FormatFixed(anm, 1) \o "%"

TargetTracking ==
    /\ pc = "target"
    /\ actual_avg_revenue' = Mean(df.Revenue)
    /\ actual_net_margin' = ActualNetMargin(df)
    /\ net_margin_tile' = NetMarginTile(actual_net_margin')
    /\ pc' = "recommend"
    /\ UNCHANGED <<inputs, adj_price, units, current, df, avg_net_profit,
                   contribution_per_unit, health_score, banner, break_even,
                   unit_status, recommendation, summary>>

(***************************************************************************)
(* 6. Executive recommendations.                                           *)
(***************************************************************************)
Recommendation(cpu, anp, anm, target) ==
    IF FLE(cpu, Zero)
    THEN <<"error", "Fix pricing or reduce variable costs - unit economics are broken.">>
    ELSE IF FLT(anp, Zero)
    THEN <<"warning", "Reduce fixed costs or delay scaling until profitable.">>
    ELSE IF FLT(anm, FromInt(target))
    THEN <<"info", "Focus on margin expansion - pricing or cost optimization needed.">>
    ELSE <<"success", "Business is on track. Consider scaling or adding new products.">>

\* The messages shown in section 6 during this run.
Recommend ==
    /\ pc = "recommend"
    /\ recommendation' = <<Recommendation(contribution_per_unit, avg_net_profit,
                                          actual_net_margin, target_net_margin)>>
    /\ pc' = "export"
    /\ UNCHANGED <<inputs, adj_price, units, current, df, avg_net_profit,
                   contribution_per_unit, health_score, banner, break_even,
                   unit_status, actual_avg_revenue, actual_net_margin,
                   net_margin_tile, summary>>

(***************************************************************************)
(* Export: the executive-summary frame (Metric, Value).                    *)
(***************************************************************************)
Summary(h, rev, anp, d) ==
    << <<"Health Score", FromInt(h)>>,
       <<"Avg Revenue", rev>>,
       <<"Avg Net Profit", anp>>,
       <<"Avg Gross Margin %", Mean(d.Gross_Margin)>>,
       <<"Avg Net Margin %", Mean(d.Net_Margin)>> >>

Export ==
    /\ pc = "export"
    /\ summary' = Summary(health_score, actual_avg_revenue, avg_net_profit, df)
    /\ pc' = "done"
    /\ UNCHANGED <<inputs, adj_price, units, current, df, avg_net_profit,
                   contribution_per_unit, health_score, banner, break_even,
                   unit_status, actual_avg_revenue, actual_net_margin,
                   net_margin_tile, recommendation>>

(***************************************************************************)
(* The user moves one widget and the script runs again from the top.  The  *)
(* parameter sets explored are those of the grid and the named ones.       *)
(***************************************************************************)
Rerun ==
    /\ pc = "done"
    /\ \E f \in Fields : \E v \in WidgetValues[f] :
          /\ v # Params[f]
          /\ LET r == [Params EXCEPT ![f] = v]
             IN  /\ (r \in Grid \/ r \in Scenarios)
                 /\ price' = r.price
                 /\ cost' = r.cost
                 /\ fixed_cost' = r.fixed_cost
                 /\ months' = r.months
                 /\ start_units' = r.start_units
                 /\ growth' = r.growth
                 /\ price_change' = r.price_change
                 /\ target_net_margin' = r.target_net_margin
    /\ adj_price' = None
    /\ units' = <<>>
    /\ current' = None
    /\ df' = NoFrame
    /\ avg_net_profit' = None
    /\ contribution_per_unit' = None
    /\ health_score' = 0
    /\ banner' = <<>>
    /\ break_even' = NoTile
    /\ unit_status' = ""
    /\ actual_avg_revenue' = None
    /\ actual_net_margin' = None
    /\ net_margin_tile' = ""
    /\ recommendation' = <<>>
    /\ summary' = <<>>
    /\ pc' = "sidebar"

Next ==
    \/ Sidebar
    \/ LoopStep
    \/ BuildFrame
    \/ HealthOverview
    \/ UnitEconomics
    \/ TargetTracking
    \/ Recommend
    \/ Export
    \/ Rerun

Spec == Init /\ [][Next]_vars

(***************************************************************************)
(* Properties.                                                             *)
(***************************************************************************)
FrameBuilt == pc \in {"health", "unit", "target", "recommend", "export", "done"}

HealthDone == pc \in {"unit", "target", "recommend", "export", "done"}

UnitDone == pc \in {"target", "recommend", "export", "done"}

TargetDone == pc \in {"recommend", "export", "done"}

RecommendDone == pc \in {"export", "done"}

Rows == 1..Len(df.Units_Sold)

\* C1: for every admissible parameter set the projected table has exactly
\* `months` rows, row i is labelled "Month i" in increasing order, and
\* Units Sold is >= 0 in every row, also under negative growth.
C1_ProjectedTable ==
    (FrameBuilt /\ Admissible(Params)) =>
        /\ \A c \in DOMAIN df : Len(df[c]) = months
        /\ \A i \in 1..months :
              /\ df.Month[i] = "Month " \o ToStr(i)
              /\ IsFinite(df.Units_Sold[i])
              /\ df.Units_Sold[i].s >= 0

C1_Witness ==
    /\ FrameBuilt
    /\ growth < 0
    /\ start_units > 0
    /\ months = MaxMonths
    /\ Len(df.Month) = months
    /\ df.Month[months] = "Month " \o ToStr(MaxMonths)
    /\ FLT(df.Units_Sold[months], df.Units_Sold[1])

\* The selling price under the price-change scenario, price * (1 +
\* price_change / 100), is at most the unit cost: in whole hundredths.
SellingPriceAtMostCost == price * (100 + price_change) <= cost * 100

\* C2: the break-even tile is the "not achievable" sentinel whenever the
\* selling price is at most the unit cost, equality included, and otherwise
\* the finite non-negative number fixed_cost / contribution_per_unit; it is
\* never infinite, NaN or a division fault.
C2_SentinelAtOrBelowCost ==
    UnitDone =>
        IF SellingPriceAtMostCost
        THEN break_even.kind = "sentinel" /\ break_even.text = Cross
        ELSE /\ break_even.kind = "number"
             /\ IsFinite(break_even.value)
             /\ break_even.value.s >= 0
             /\ break_even.value = FDiv(FromInt(fixed_cost), contribution_per_unit)

\* C3: in every period whose Revenue is 0 (Units Sold = 0) both margins are
\* exactly 0; in every period with Revenue > 0 they are
\* Contribution/Revenue*100 and Net Profit/Revenue*100; they are never NaN
\* or infinite.
C3_MarginGuard ==
    FrameBuilt =>
        \A i \in Rows :
            LET rev == df.Revenue[i]
                gm  == df.Gross_Margin[i]
                nm  == df.Net_Margin[i]
            IN  /\ IsFinite(rev) /\ IsFinite(gm) /\ IsFinite(nm)
                /\ rev.s >= 0
                /\ (rev.s = 0) <=> (df.Units_Sold[i].s = 0)
                /\ rev.s = 0 => (gm = Zero /\ nm = Zero)
                /\ rev.s > 0 =>
                      /\ gm = FMul(FDiv(df.Contribution[i], rev), FromInt(100))
                      /\ nm = FMul(FDiv(df.Net_Profit[i], rev), FromInt(100))

C3_Witness ==
    /\ FrameBuilt
    /\ fixed_cost > 0
    /\ df.Revenue[1] = Zero
    /\ df.Net_Profit[1].s < 0
    /\ df.Net_Margin[1] = Zero
    /\ df.Gross_Margin[1] = Zero

\* C4: whenever contribution_per_unit > 0, the break-even volume
\* B = fixed_cost / contribution_per_unit is where a period's Net Profit
\* changes sign: Net Profit = 0 iff Units Sold = B, > 0 iff Units Sold > B,
\* < 0 iff Units Sold < B, in every projected period.
C4_BreakEvenIsZeroProfit ==
    (UnitDone /\ FGT(contribution_per_unit, Zero)) =>
        /\ break_even.kind = "number"
        /\ \A i \in Rows :
              LET u  == df.Units_Sold[i]
                  np == df.Net_Profit[i]
                  B  == break_even.value
              IN  /\ (np = Zero) <=> (u = B)
                  /\ FGT(np, Zero) <=> FGT(u, B)
                  /\ FLT(np, Zero) <=> FLT(u, B)

\* C5: health_score is 30*[contribution_per_unit > 0] + 30*[mean Net Profit
\* > 0] + 20*[growth > 0] + 20*[fixed_cost < mean Revenue], every comparison
\* strict, hence an integer in 0..100.
C5_HealthScoreFormula ==
    HealthDone =>
        /\ health_score =
              (IF FGT(adj_price, FromInt(cost)) THEN 30 ELSE 0)
              + (IF FGT(FDiv(NpSum(df.Net_Profit), FromInt(months)), Zero)
                 THEN 30 ELSE 0)
              + (IF growth > 0 THEN 20 ELSE 0)
              + (IF FLT(FromInt(fixed_cost),
                        FDiv(NpSum(df.Revenue), FromInt(months)))
                 THEN 20 ELSE 0)
        /\ health_score \in 0..100

C5_Witness ==
    /\ HealthDone
    /\ growth = 0
    /\ fixed_cost > 0
    /\ health_score = 80

\* The mean of the per-period net margins, from the Revenue and Net Profit
\* columns, a zero-revenue period counting 0.
MeanOfRatios ==
    FDiv(NpSum([i \in Rows |->
                  IF df.Revenue[i].s > 0
                  THEN FMul(FDiv(df.Net_Profit[i], df.Revenue[i]), FromInt(100))
                  ELSE Zero]),
         FromInt(months))

\* sum(Net Profit) / sum(Revenue) * 100.
RatioOfSums ==
    FMul(FDiv(NpSum(df.Net_Profit), NpSum(df.Revenue)), FromInt(100))

UnequalRevenues == \E i, j \in Rows : df.Revenue[i] # df.Revenue[j]

\* C6: the reported average net margin (the tile, to one decimal, and the
\* executive summary) is the arithmetic mean of the per-period Net Margin %
\* values, a zero-revenue period counting 0, not
\* sum(Net Profit)/sum(Revenue)*100.
C6_MeanOfRatios ==
    /\ TargetDone =>
          /\ actual_net_margin = MeanOfRatios
          /\ net_margin_tile = FormatFixed(MeanOfRatios, 1) \o "%"
    /\ pc = "done" => summary[5] = <<"Avg Net Margin %", MeanOfRatios>>

\* Unequal revenues for which the two averages differ, in the value and on
\* the tile, and the mean of the ratios is the one reported.
C6_Witness ==
    /\ pc = "done"
    /\ UnequalRevenues
    /\ summary[5][2] = actual_net_margin
    /\ actual_net_margin = MeanOfRatios
    /\ actual_net_margin # RatioOfSums
    /\ net_margin_tile # FormatFixed(RatioOfSums, 1) \o "%"

\* C7: with price=50, cost=20, fixed_cost=20000, months=6, start_units=70,
\* growth=0, price_change=0 every one of the 6 periods has Units Sold 70,
\* Revenue 3500, COGS 1400, Contribution 2100, Net Profit -17900, Gross
\* Margin 60 %, Net Margin -17900/3500*100 % (-511.43 to two decimals);
\* contribution_per_unit is 30 and break-even 20000/30 (666.67).
C7_ConcreteScenario ==
    (Params = Scenario /\ pc = "done") =>
        /\ Len(df.Units_Sold) = 6
        /\ \A i \in 1..6 :
              /\ df.Units_Sold[i] = FromInt(70)
              /\ df.Revenue[i] = FromInt(3500)
              /\ df.COGS[i] = FromInt(1400)
              /\ df.Contribution[i] = FromInt(2100)
              /\ df.Net_Profit[i] = FromInt(-17900)
              /\ df.Gross_Margin[i] = FromInt(60)
              /\ df.Net_Margin[i] =
                    FMul(FDiv(FromInt(-17900), FromInt(3500)), FromInt(100))
              /\ FormatFixed(df.Net_Margin[i], 2) = "-511.43"
        /\ contribution_per_unit = FromInt(30)
        /\ break_even.kind = "number"
        /\ break_even.value = FDiv(FromInt(20000), FromInt(30))
        /\ FormatFixed(break_even.value, 2) = "666.67"

C7_Witness ==
    /\ Params = Scenario
    /\ pc = "done"
    /\ break_even.text = "667"
    /\ net_margin_tile = "-511.4%"

\* C9: mean Net Profit > 0 implies contribution_per_unit > 0 and fixed_cost <
\* mean Revenue, so health_score is one of 0, 20, 30, 40, 50, 70, 80, 100
\* and never 60 (nor 10, nor 90).
C9_BonusesDependent ==
    HealthDone =>
        /\ FGT(avg_net_profit, Zero) =>
              /\ FGT(contribution_per_unit, Zero)
              /\ FLT(FromInt(fixed_cost), Mean(df.Revenue))
        /\ health_score \in {0, 20, 30, 40, 50, 70, 80, 100}

\* C10: exactly one recommendation is shown, chosen by priority
\* (contribution_per_unit <= 0, then mean Net Profit < 0, then average net
\* margin < target, else "on track"); the error recommendation comes only
\* with health_score <= 40 and the "at risk" banner, and the "strong" banner
\* (health_score >= 80) never with the error or the warning recommendation.
C10_RecommendationMatchesBanner ==
    RecommendDone =>
        /\ Len(recommendation) = 1
        /\ recommendation[1][1] =
              CASE FLE(contribution_per_unit, Zero) -> "error"
                [] FGT(contribution_per_unit, Zero) /\ FLT(avg_net_profit, Zero)
                      -> "warning"
                [] FGT(contribution_per_unit, Zero) /\ FGE(avg_net_profit, Zero)
                   /\ FLT(actual_net_margin, FromInt(target_net_margin)) -> "info"
                [] OTHER -> "success"
        /\ recommendation[1][1] = "error" =>
              /\ health_score <= 40
              /\ banner[2] = "Core business model is at risk."
        /\ (health_score >= 80 <=> banner[2] = "Business fundamentals are strong.")
        /\ banner[2] = "Business fundamentals are strong." =>
              recommendation[1][1] \notin {"error", "warning"}

C10_Witness ==
    /\ RecommendDone
    /\ banner[2] = "Business fundamentals are strong."
    /\ recommendation[1][1] = "info"

====
